---------------------------- MODULE Spec2Model ----------------------------
(***************************************************************************)
(* Model of the performance analysis and alignment engine of               *)
(* classical-performance-analyzer (backend/analysis.py, backend/main.py).  *)
(*                                                                         *)
(* Real numbers are held as exact rationals <<num, den>> in lowest terms   *)
(* with den > 0.  None is the empty tuple <<>> and a non-finite float      *)
(* (nan, inf) is <<0, 0>>.                                                 *)
(***************************************************************************)
EXTENDS Integers, Sequences, FiniteSets, TLC

VARIABLES
    beat_frames,    \* analyze_tempo: beat_frames returned by beat_track
    tempo_est,      \* analyze_tempo: tempo_est returned by beat_track
    tpc,            \* analyze_tempo: position in the function
    tempo_locals,   \* analyze_tempo: locals alive between the steps
    tempo_out,      \* analyze_tempo: the returned dict
    path,           \* compare_recordings_dtw: wp, the warping path in forward order
    pairs,          \* compare_recordings_dtw: the pairs retained by the reduction
    request,        \* compare: the uploaded files and the full flag
    student,        \* the student analysis dict
    reference,      \* the reference analysis dict
    comp,           \* the dict returned by compare_recordings_dtw
    insights,       \* the list returned by build_insights
    insights_calls, \* how many times build_insights was invoked
    response,       \* compare: the HTTP response
    pc,             \* position of the comparison under way
    recording,      \* analyze_loudness: the signal loaded from audio_path
    loud_out,       \* analyze_loudness: the returned dict
    lpc,            \* analyze_loudness: position in the function
    rc_points,      \* resample_curve: points, the curve
    rc_grid,        \* resample_curve: grid_t, the grid of times
    resampled,      \* resample_curve: the returned array
    rpc,            \* resample_curve: position in the function
    upload,         \* upload_audio: the uploaded file and what its analysis does
    upc,            \* upload_audio: position in the handler
    status_json,    \* storage: data/<job_id>/status.json
    result_json,    \* storage: data/<job_id>/result.json
    gpc,            \* get_job: position of each request
    gstatus,        \* get_job: the status each request read
    gresp           \* get_job: the response of each request

tempo_vars == <<beat_frames, tempo_est, tpc, tempo_locals, tempo_out>>

flow_vars == <<path, pairs, request, student, reference, comp, insights,
               insights_calls, response, pc>>

loud_vars == <<recording, loud_out, lpc>>

curve_vars == <<rc_points, rc_grid, resampled, rpc>>

job_vars == <<upload, upc, status_json, result_json, gpc, gstatus, gresp>>

vars == <<beat_frames, tempo_est, tpc, tempo_locals, tempo_out, path, pairs, request,
          student, reference, comp, insights, insights_calls, response, pc,
          recording, loud_out, lpc, rc_points, rc_grid, resampled, rpc,
          upload, upc, status_json, result_json, gpc, gstatus, gresp>>

-----------------------------------------------------------------------------
(* Exact rational arithmetic standing for Python floats.                   *)

None == <<>>
NaN == <<0, 0>>

Abs(x) == IF x < 0 THEN -x ELSE x

RECURSIVE GCD(_, _)
GCD(a, b) == IF b = 0 THEN a ELSE GCD(b, a % b)

Rat(n, d) ==
    IF d = 0 THEN NaN
    ELSE LET g == GCD(Abs(n), Abs(d))
             s == IF d < 0 THEN -1 ELSE 1
         IN  <<(s * n) \div g, (s * d) \div g>>

Q(n) == <<n, 1>>
Num(x) == x[1]
Den(x) == x[2]

RAdd(x, y) == Rat(Num(x) * Den(y) + Num(y) * Den(x), Den(x) * Den(y))
RSub(x, y) == Rat(Num(x) * Den(y) - Num(y) * Den(x), Den(x) * Den(y))
RMul(x, y) == Rat(Num(x) * Num(y), Den(x) * Den(y))
RDiv(x, y) == Rat(Num(x) * Den(y), Den(x) * Num(y))
RLe(x, y) == Num(x) * Den(y) <= Num(y) * Den(x)
RLt(x, y) == Num(x) * Den(y) < Num(y) * Den(x)
RAbs(x) == <<Abs(Num(x)), Den(x)>>
RMin(x, y) == IF RLe(x, y) THEN x ELSE y
RMax(x, y) == IF RLe(y, x) THEN x ELSE y
RClip(x, lo, hi) == RMin(RMax(x, lo), hi)

\* x > 1e-9, without leaving the 32-bit integers of the checker
GtBillionth(x) == Num(x) >= 3 \/ (Num(x) >= 1 /\ Den(x) < Num(x) * 1000000000)

RECURSIVE RSumFrom(_, _)
RSumFrom(s, k) == IF k > Len(s) THEN Q(0) ELSE RAdd(s[k], RSumFrom(s, k + 1))

RSum(s) == RSumFrom(s, 1)
RMean(s) == RDiv(RSum(s), Q(Len(s)))

\* np.var: the population variance
RVar(s) ==
    LET m == RMean(s)
    IN  RMean([k \in 1..Len(s) |-> RMul(RSub(s[k], m), RSub(s[k], m))])

-----------------------------------------------------------------------------
(* analyze_tempo                                                           *)

hop_length == 512

\* The recordings of the model are sampled at 12 hops per second.
SampleRate == 12 * hop_length

\* The longest beat sequence the beat tracker returns in the model.
MaxBeats == 6

\* Distances between consecutive beat frames: 1/6 s (clamped to 240 BPM),
\* 1/3 s (180 BPM), 1/2 s (120 BPM) and 5/3 s (clamped to 40 BPM).
IbiFrames == {2, 4, 6, 20}

\* Aggregate estimates of the beat tracker: none, and one the octave rule
\* would halve.
TempoEstimates == {Q(0), Q(150)}

RECURSIVE BeatFrameSeqs(_)
BeatFrameSeqs(n) ==
    IF n = 0 THEN {<<>>}
    ELSE LET prev == BeatFrameSeqs(n - 1)
         IN  prev \cup {<<0>>}
                  \cup {Append(s, s[Len(s)] + d) : s \in prev \ {<<>>}, d \in IbiFrames}

frames_to_time(frames) ==
    [k \in 1..Len(frames) |-> Rat(frames[k] * hop_length, SampleRate)]

MinBeats == 3

\* line 88
InsufficientBeatsTwo(beat_times) == Len(beat_times) < 2

InsufficientBeats(beat_times) == Len(beat_times) < MinBeats

\* lines 118-119
HalfTimeAsDouble(bpm) == RMul(bpm, Q(2))

HalfTime(bpm) == RDiv(bpm, Q(2))
DoubleTime(bpm) == RMul(bpm, Q(2))

\* lines 88-104: the degenerate result
DegenerateResult(est) ==
    [ tempo_curve |-> <<>>,
      summary |-> [avg_bpm |-> est, bpm_variance |-> Q(0), tempo_stability_cv |-> None],
      tempo_interpretations |->
          [ as_detected_bpm |-> est,
            half_time_bpm |-> HalfTime(est),
            double_time_bpm |-> DoubleTime(est),
            recommended_bpm |-> est,
            recommended_label |-> "as_detected_bpm",
            reason |-> "Not enough beats detected to infer a stable curve." ],
      events |-> <<>> ]

\* lines 106-107
Diff(s) == [k \in 1..(Len(s) - 1) |-> RSub(s[k + 1], s[k])]

ClipBelow(x, lo) == RMax(x, lo)

BpmFloor == Q(40)
BpmCeil == Q(240)

\* the instantaneous tempo without line 110
BpmInstUnclamped(beat_times) ==
    LET ibi == Diff(beat_times)
    IN  [k \in 1..Len(ibi) |-> RDiv(Q(60), ClipBelow(ibi[k], Rat(1, 1000000)))]

BpmInst(beat_times) ==
    LET ibi == Diff(beat_times)
    IN  [k \in 1..Len(ibi) |->
            RClip(RDiv(Q(60), ClipBelow(ibi[k], Rat(1, 1000000))), BpmFloor, BpmCeil)]

\* line 108
TMid(beat_times) ==
    [k \in 1..(Len(beat_times) - 1) |->
        RDiv(RAdd(beat_times[k], beat_times[k + 1]), Q(2))]

\* line 115: std/avg, held as its square var/avg^2 (std is a square root)
StabilityCv(variance, avg) ==
    IF GtBillionth(avg) THEN RDiv(variance, RMul(avg, avg)) ELSE None

\* lines 121-131: the octave rule, as [name, bpm, reason]
InterpretSwapped(as_detected) ==
    LET half_time == HalfTime(as_detected)
        double_time == DoubleTime(as_detected)
    IN  IF RLe(Q(40), as_detected) /\ RLe(as_detected, Q(120))
        THEN [name |-> "as_detected_bpm", bpm |-> as_detected,
              reason |-> "Recommended tempo chosen by heuristic."]
        ELSE IF RLe(Q(90), as_detected) /\ RLe(as_detected, Q(180))
                /\ RLe(Q(40), half_time) /\ RLe(half_time, Q(110))
        THEN [name |-> "half_time_bpm", bpm |-> half_time,
              reason |-> "Detected pulse likely reflects subdivisions; half-time lands in a more plausible musical tempo range."]
        ELSE IF RLe(Q(40), double_time) /\ RLe(double_time, Q(120))
        THEN [name |-> "double_time_bpm", bpm |-> double_time,
              reason |-> "Recommended tempo chosen by heuristic."]
        ELSE [name |-> "as_detected_bpm", bpm |-> as_detected,
              reason |-> "Recommended tempo chosen by heuristic."]

Interpret(as_detected) ==
    LET half_time == HalfTime(as_detected)
        double_time == DoubleTime(as_detected)
    IN  IF RLe(Q(90), as_detected) /\ RLe(as_detected, Q(180))
           /\ RLe(Q(40), half_time) /\ RLe(half_time, Q(110))
        THEN [name |-> "half_time_bpm", bpm |-> half_time,
              reason |-> "Detected pulse likely reflects subdivisions; half-time lands in a more plausible musical tempo range."]
        ELSE IF RLe(Q(40), as_detected) /\ RLe(as_detected, Q(120))
        THEN [name |-> "as_detected_bpm", bpm |-> as_detected,
              reason |-> "Recommended tempo chosen by heuristic."]
        ELSE IF RLe(Q(40), double_time) /\ RLe(double_time, Q(120))
        THEN [name |-> "double_time_bpm", bpm |-> double_time,
              reason |-> "Recommended tempo chosen by heuristic."]
        ELSE [name |-> "as_detected_bpm", bpm |-> as_detected,
              reason |-> "Recommended tempo chosen by heuristic."]

\* lines 133-140
RecommendHalf(as_detected, best) ==
    [ as_detected_bpm |-> as_detected,
      half_time_bpm |-> HalfTime(as_detected),
      double_time_bpm |-> DoubleTime(as_detected),
      recommended_bpm |-> HalfTime(as_detected),
      recommended_label |-> best.name,
      reason |-> best.reason ]

TempoInterpretations(as_detected, best) ==
    [ as_detected_bpm |-> as_detected,
      half_time_bpm |-> HalfTime(as_detected),
      double_time_bpm |-> DoubleTime(as_detected),
      recommended_bpm |-> best.bpm,
      recommended_label |-> best.name,
      reason |-> best.reason ]

\* lines 142-146
Scale(best_name) ==
    IF best_name = "half_time_bpm" THEN Rat(1, 2)
    ELSE IF best_name = "double_time_bpm" THEN Q(2)
    ELSE Q(1)

\* lines 25-31: np.convolve(x, ones(w)/w, mode="same")
SmoothWindow == 7

RECURSIVE WindowSum(_, _, _)
WindowSum(x, lo, hi) ==
    IF lo > hi THEN Q(0) ELSE RAdd(x[lo], WindowSum(x, lo + 1, hi))

Max2(a, b) == IF a >= b THEN a ELSE b
Min2(a, b) == IF a <= b THEN a ELSE b

\* the w-1 zero-padded taps are split (w-1) \div 2 after and the rest before
moving_average(x, w) ==
    IF Len(x) = 0 THEN x
    ELSE IF Len(x) < w THEN x
    ELSE [k \in 1..Len(x) |->
            RDiv(WindowSum(x, Max2(1, k - ((w - 1) - (w - 1) \div 2)),
                              Min2(Len(x), k + (w - 1) \div 2)),
                 Q(w))]

\* lines 148-161
TempoCurve(t_mid, bpm_inst, scale) ==
    LET bpm_mus == [k \in 1..Len(bpm_inst) |-> RMul(bpm_inst[k], scale)]
        bpm_smooth == moving_average(bpm_inst, SmoothWindow)
        bpm_mus_smooth == moving_average(bpm_mus, SmoothWindow)
    IN  [k \in 1..Len(bpm_inst) |->
            [ t |-> t_mid[k],
              bpm |-> bpm_inst[k],
              bpm_musical |-> bpm_mus[k],
              bpm_smooth |-> bpm_smooth[k],
              bpm_musical_smooth |-> bpm_mus_smooth[k] ]]

\* lines 165-166
Dev(bpm_inst, avg_bpm) ==
    [k \in 1..Len(bpm_inst) |-> RDiv(RAbs(RSub(bpm_inst[k], avg_bpm)), avg_bpm)]

BadThreshold == Rat(15, 100)

Mask(dev) == [k \in 1..Len(dev) |-> RLt(BadThreshold, dev[k])]

\* line 172: the exclusive end of a run closed at position i (0-based)
RunEndExclusive(i, is_bad) == i

RunEnd(i, is_bad) == IF ~is_bad THEN i ELSE i + 1

\* line 173
MinRun(start, end) == end - start >= 2

\* lines 174-181; start and end are 0-based, end exclusive
Event(start, end, t_mid, dev) ==
    [ t_start |-> t_mid[start + 1],
      t_end |-> t_mid[end],
      type |-> "tempo_instability",
      severity |-> RMin(Q(1), RDiv(RMean(SubSeq(dev, start + 1, end)), Rat(30, 100))) ]

\* lines 167-182: the scan from 0-based position i on; start = -1 is None
RECURSIVE EventScan(_, _, _, _, _, _)
EventScan(i, start, events, mask, dev, t_mid) ==
    IF i >= Len(mask) THEN events
    ELSE LET is_bad == mask[i + 1]
             start1 == IF is_bad /\ start = -1 THEN i ELSE start
         IN  IF (~is_bad \/ i = Len(mask) - 1) /\ start1 # -1
             THEN LET end == RunEnd(i, is_bad)
                  IN  EventScan(i + 1, -1,
                                IF MinRun(start1, end)
                                THEN Append(events, Event(start1, end, t_mid, dev))
                                ELSE events,
                                mask, dev, t_mid)
             ELSE EventScan(i + 1, start1, events, mask, dev, t_mid)

\* line 164
EventsGuard(bpm_inst, avg_bpm) == Len(bpm_inst) >= 3 /\ RLt(Q(0), avg_bpm)

\* lines 163-182
Events(bpm_inst, avg_bpm, t_mid) ==
    IF EventsGuard(bpm_inst, avg_bpm)
    THEN LET dev == Dev(bpm_inst, avg_bpm)
         IN  EventScan(0, -1, <<>>, Mask(dev), dev, t_mid)
    ELSE <<>>

NoLocals == [bpm_inst |-> <<>>]
NoResult == [tempo_curve |-> <<>>]

TempoInit ==
    /\ beat_frames \in BeatFrameSeqs(MaxBeats)
    /\ tempo_est \in TempoEstimates
    /\ tpc = "beats"
    /\ tempo_locals = NoLocals
    /\ tempo_out = NoResult

\* lines 88-104
TempoDegenerate ==
    /\ tpc = "beats"
    /\ InsufficientBeats(frames_to_time(beat_frames))
    /\ tempo_out' = DegenerateResult(tempo_est)
    /\ tpc' = "done"
    /\ UNCHANGED <<beat_frames, tempo_est, tempo_locals>>
    /\ UNCHANGED <<flow_vars, loud_vars, curve_vars, job_vars>>

\* lines 106-161
TempoLocals(beat_times) ==
    LET bpm_inst == BpmInst(beat_times)
        t_mid == TMid(beat_times)
        avg_bpm == RMean(bpm_inst)
        bpm_variance == RVar(bpm_inst)
        best == Interpret(avg_bpm)
    IN  [ bpm_inst |-> bpm_inst,
          t_mid |-> t_mid,
          avg_bpm |-> avg_bpm,
          bpm_variance |-> bpm_variance,
          tempo_stability_cv |-> StabilityCv(bpm_variance, avg_bpm),
          tempo_interpretations |-> TempoInterpretations(avg_bpm, best),
          scale |-> Scale(best.name),
          tempo_curve |-> TempoCurve(t_mid, bpm_inst, Scale(best.name)) ]

\* lines 163-196
TempoReturn(locals, est) ==
    [ tempo_curve |-> locals.tempo_curve,
      summary |->
          [ avg_bpm |-> IF RLt(Q(0), locals.avg_bpm) THEN locals.avg_bpm ELSE est,
            bpm_variance |-> locals.bpm_variance,
            tempo_stability_cv |-> locals.tempo_stability_cv ],
      tempo_interpretations |-> locals.tempo_interpretations,
      events |-> Events(locals.bpm_inst, locals.avg_bpm, locals.t_mid) ]

\* lines 88-196, from the beat tracker's output on
AnalyzeTempo(frames, est) ==
    LET beat_times == frames_to_time(frames)
    IN  IF InsufficientBeats(beat_times) THEN DegenerateResult(est)
        ELSE TempoReturn(TempoLocals(beat_times), est)

\* lines 106-161
TempoCurveStep ==
    /\ tpc = "beats"
    /\ ~InsufficientBeats(frames_to_time(beat_frames))
    /\ tempo_locals' = TempoLocals(frames_to_time(beat_frames))
    /\ tpc' = "events"
    /\ UNCHANGED <<beat_frames, tempo_est, tempo_out>>
    /\ UNCHANGED <<flow_vars, loud_vars, curve_vars, job_vars>>

\* lines 163-196
TempoEventsStep ==
    /\ tpc = "events"
    /\ tempo_out' = TempoReturn(tempo_locals, tempo_est)
    /\ tpc' = "done"
    /\ UNCHANGED <<beat_frames, tempo_est, tempo_locals>>
    /\ UNCHANGED <<flow_vars, loud_vars, curve_vars, job_vars>>

TempoNext == TempoDegenerate \/ TempoCurveStep \/ TempoEventsStep

-----------------------------------------------------------------------------
(* resample_curve                                                          *)

\* np.argsort followed by t[order], y[order]: the points in order of time
RECURSIVE InsertByT(_, _, _)
InsertByT(sorted, p, t_key) ==
    IF sorted = <<>> THEN <<p>>
    ELSE IF RLe(sorted[Len(sorted)][t_key], p[t_key]) THEN Append(sorted, p)
    ELSE Append(InsertByT(SubSeq(sorted, 1, Len(sorted) - 1), p, t_key),
                sorted[Len(sorted)])

RECURSIVE SortByT(_, _)
SortByT(points, t_key) ==
    IF points = <<>> THEN <<>>
    ELSE InsertByT(SortByT(SubSeq(points, 1, Len(points) - 1), t_key),
                   points[Len(points)], t_key)

\* np.interp at one x with t[1] <= x <= t[Len(t)]
Interp(x, t, y) ==
    LET below == {k \in 1..Len(t) : RLe(t[k], x)}
        j == CHOOSE k \in below : \A l \in below : l <= k
    IN  IF j = Len(t) THEN y[j]
        ELSE RAdd(y[j], RMul(RDiv(RSub(y[j + 1], y[j]), RSub(t[j + 1], t[j])),
                             RSub(x, t[j])))

\* the interpolation over the points as given, not ordered by time
resample_curve_unsorted(points, t_key, y_key, grid_t) ==
    IF points = <<>> THEN <<>>
    ELSE LET t == [k \in 1..Len(points) |-> points[k][t_key]]
             y == [k \in 1..Len(points) |-> points[k][y_key]]
             lo == t[1]
             hi == t[Len(t)]
         IN  [g \in 1..Len(grid_t) |-> Interp(RClip(grid_t[g], lo, hi), t, y)]

\* lines 34-49
resample_curve(points, t_key, y_key, grid_t) ==
    IF points = <<>> THEN <<>>
    ELSE LET sorted == SortByT(points, t_key)
             t == [k \in 1..Len(sorted) |-> sorted[k][t_key]]
             y == [k \in 1..Len(sorted) |-> sorted[k][y_key]]
             lo == t[1]
             hi == t[Len(t)]
         IN  [g \in 1..Len(grid_t) |-> Interp(RClip(grid_t[g], lo, hi), t, y)]

-----------------------------------------------------------------------------
(* analyze_loudness                                                        *)

frame_length == 2048

\* A recording, as the analyses see it: the trimmed signal's length in
\* samples, the level 20*log10(rms) of each of its frames in whole dB, the
\* samples trimmed before and after it, and the beat tracker's output.
Recording(n_hops, levels, beats, est) ==
    [ n_trim |-> n_hops * hop_length,
      lead |-> hop_length,
      trail |-> hop_length,
      levels |-> levels,
      beat_frames |-> beats,
      tempo_est |-> est ]

\* lines 68-74 and 205-211
DurationRaw(rec) == Rat(rec.lead + rec.n_trim + rec.trail, SampleRate)
DurationTrimmed(rec) == Rat(rec.n_trim, SampleRate)
Trim(rec) ==
    [ start_sec |-> Rat(rec.lead, SampleRate),
      end_sec |-> Rat(rec.lead + rec.n_trim, SampleRate),
      top_db |-> Q(35) ]

\* line 228: rms floored at 1e-12, -240 dB
RmsFloorDb == -240
\* librosa.amplitude_to_db: amin = 1e-5 is -100 dB, top_db = 80
AminDb == -100
TopDb == 80

\* the conversion without its reference: dB relative to full scale
amplitude_to_db_absolute(levels, ref) ==
    LET abs_db == [k \in 1..Len(levels) |-> Max2(levels[k], AminDb)]
        peak == CHOOSE v \in {abs_db[k] : k \in 1..Len(abs_db)} :
                    \A k \in 1..Len(abs_db) : abs_db[k] <= v
    IN  [k \in 1..Len(abs_db) |-> Q(Max2(abs_db[k], peak - TopDb))]

\* line 230: dB relative to ref, the level of the loudest frame
amplitude_to_db(levels, ref) ==
    LET rel == [k \in 1..Len(levels) |-> Max2(levels[k], AminDb) - Max2(ref, AminDb)]
        peak == CHOOSE v \in {rel[k] : k \in 1..Len(rel)} :
                    \A k \in 1..Len(rel) : rel[k] <= v
    IN  [k \in 1..Len(rel) |-> Q(Max2(rel[k], peak - TopDb))]

RECURSIVE InsertSorted(_, _)
InsertSorted(sorted, x) ==
    IF sorted = <<>> THEN <<x>>
    ELSE IF RLe(sorted[Len(sorted)], x) THEN Append(sorted, x)
    ELSE Append(InsertSorted(SubSeq(sorted, 1, Len(sorted) - 1), x), sorted[Len(sorted)])

RECURSIVE Sorted(_)
Sorted(xs) ==
    IF xs = <<>> THEN <<>>
    ELSE InsertSorted(Sorted(SubSeq(xs, 1, Len(xs) - 1)), xs[Len(xs)])

\* np.percentile, linear interpolation between the closest ranks
Percentile(xs, q) ==
    LET a == Sorted(xs)
        pos == Rat(q * (Len(xs) - 1), 100)
        lo == Num(pos) \div Den(pos)
        frac == RSub(pos, Q(lo))
    IN  IF lo + 1 >= Len(a) THEN a[Len(a)]
        ELSE RAdd(a[lo + 1], RMul(frac, RSub(a[lo + 2], a[lo + 1])))

\* lines 202-243
AnalyzeLoudness(rec) ==
    IF rec.n_trim < frame_length
    THEN [ loudness_curve |-> <<>>,
           loudness_summary |-> [mean_db |-> None, dynamic_range_db |-> None] ]
    ELSE LET rms == [k \in 1..Len(rec.levels) |-> Max2(rec.levels[k], RmsFloorDb)]
             ref == CHOOSE v \in {rms[k] : k \in 1..Len(rms)} :
                        \A k \in 1..Len(rms) : rms[k] <= v
             rms_db == amplitude_to_db(rms, ref)
         IN  [ loudness_curve |->
                   [k \in 1..Len(rms_db) |->
                       [t |-> Rat((k - 1) * hop_length, SampleRate), rms_db |-> rms_db[k]]],
               loudness_summary |->
                   [ mean_db |-> RMean(rms_db),
                     dynamic_range_db |->
                         RSub(Percentile(rms_db, 95), Percentile(rms_db, 5)) ] ]

-----------------------------------------------------------------------------
(* compare_recordings_dtw                                                  *)

\* line 259
ds == Rat(1, 10)

\* np.arange(0.0, stop, step)
Arange(stop, step) ==
    LET q == RDiv(stop, step)
        n == -((-Num(q)) \div Den(q))
    IN  [k \in 1..Max2(n, 0) |-> RMul(Q(k - 1), step)]

\* lines 260-261: float(x or 0.0)
DurationOrZero(x) == IF x = None THEN Q(0) ELSE x

\* librosa.sequence.dtw, step sizes (1,1), (0,1), (1,0) tried in this order,
\* a later step taken only when strictly cheaper; None is an infinite cost
DtwStepReferenceFirst(d_diag, d_ref, d_stu) ==
    IF d_ref # None /\ (d_diag = None \/ RLe(d_ref, d_diag))
                    /\ (d_stu = None \/ RLe(d_ref, d_stu)) THEN 2
    ELSE IF d_diag # None /\ (d_stu = None \/ RLe(d_diag, d_stu)) THEN 1
    ELSE 3

DtwStep(d_diag, d_ref, d_stu) ==
    IF d_diag # None /\ (d_ref = None \/ RLe(d_diag, d_ref))
                     /\ (d_stu = None \/ RLe(d_diag, d_stu)) THEN 1
    ELSE IF d_ref # None /\ (d_stu = None \/ RLe(d_ref, d_stu)) THEN 2
    ELSE 3

\* the accumulated cost and the step of cell j of one row, given the row
\* before it (empty for the first row); None is an infinite cost
DtwCell(j, row, prev, x, Y) ==
    LET c == RAbs(RSub(x, Y[j]))
        d_diag == IF prev # <<>> /\ j > 1 THEN prev[j - 1].cost ELSE None
        d_ref == IF j > 1 THEN row[j - 1].cost ELSE None
        d_stu == IF prev # <<>> THEN prev[j].cost ELSE None
        step == DtwStep(d_diag, d_ref, d_stu)
        from == IF step = 1 THEN d_diag ELSE IF step = 2 THEN d_ref ELSE d_stu
    IN  IF prev = <<>> /\ j = 1 THEN [cost |-> c, step |-> 0]
        ELSE [cost |-> RAdd(from, c), step |-> step]

RECURSIVE DtwRow(_, _, _, _, _)
DtwRow(j, row, prev, x, Y) ==
    IF j > Len(Y) THEN row
    ELSE DtwRow(j + 1, Append(row, DtwCell(j, row, prev, x, Y)), prev, x, Y)

\* the table of accumulated costs, one row per student frame
RECURSIVE DtwAccumulate(_, _, _, _)
DtwAccumulate(i, rows, X, Y) ==
    IF i > Len(X) THEN rows
    ELSE DtwAccumulate(i + 1,
                       Append(rows, DtwRow(1, <<>>, IF i = 1 THEN <<>> ELSE rows[i - 1],
                                           X[i], Y)),
                       X, Y)

\* the backtracking, from the last cell to the first; pairs are 0-based
RECURSIVE DtwBacktrack(_, _, _, _)
DtwBacktrack(i, j, rows, wp) ==
    LET step == rows[i][j].step
        wp1 == Append(wp, <<i - 1, j - 1>>)
    IN  IF i = 1 /\ j = 1 THEN wp1
        ELSE IF step = 1 THEN DtwBacktrack(i - 1, j - 1, rows, wp1)
        ELSE IF step = 2 THEN DtwBacktrack(i, j - 1, rows, wp1)
        ELSE DtwBacktrack(i - 1, j, rows, wp1)

Reverse(s) == [k \in 1..Len(s) |-> s[Len(s) + 1 - k]]

\* lines 274-275: the warping path in forward order
DtwPath(X, Y) ==
    Reverse(DtwBacktrack(Len(X), Len(Y), DtwAccumulate(1, <<>>, X, Y), <<>>))

\* lines 281-286: keep the last pair of each student index
RECURSIVE ReduceKeepLast(_, _, _, _)
ReduceKeepLast(wp, k, seen, kept) ==
    IF k > Len(wp) THEN kept
    ELSE IF wp[k][1] \notin seen
    THEN ReduceKeepLast(wp, k + 1, seen \cup {wp[k][1]}, Append(kept, wp[k]))
    ELSE ReduceKeepLast(wp, k + 1, seen,
                        [kept EXCEPT ![Len(kept)] = wp[k]])

RECURSIVE ReduceFrom(_, _, _, _)
ReduceFrom(wp, k, seen, kept) ==
    IF k > Len(wp) THEN kept
    ELSE IF wp[k][1] \notin seen
    THEN ReduceFrom(wp, k + 1, seen \cup {wp[k][1]}, Append(kept, wp[k]))
    ELSE ReduceFrom(wp, k + 1, seen, kept)

\* lines 280-286
ReducePathLast(wp) == ReduceKeepLast(wp, 1, {}, <<>>)

ReducePath(wp) == ReduceFrom(wp, 1, {}, <<>>)

\* line 288
MinPairs == 10

\* the guard refusing MinPairs pairs as well
PathTooShortInclusive(kept) == Len(kept) <= MinPairs

PathTooShort(kept) == Len(kept) < MinPairs

\* lines 301-308
pick_tempo_key(curve) ==
    IF curve # <<>> /\ "bpm_musical_smooth" \in DOMAIN curve[1] THEN "bpm_musical_smooth"
    ELSE IF curve # <<>> /\ "bpm_musical" \in DOMAIN curve[1] THEN "bpm_musical"
    ELSE IF curve # <<>> /\ "bpm_smooth" \in DOMAIN curve[1] THEN "bpm_smooth"
    ELSE "bpm"

\* line 316
TempoMissingStudentOnly(s_t, r_t) == Len(s_t) = 0

TempoMissing(s_t, r_t) == Len(s_t) = 0 \/ Len(r_t) = 0

\* lines 319-320: a[s_idx] - b[r_idx]
AlignedDiff(a, b, kept) == [k \in 1..Len(kept) |-> RSub(a[kept[k][1] + 1], b[kept[k][2] + 1])]

\* lines 322-323
MeanAbs(d) == RMean([k \in 1..Len(d) |-> RAbs(d[k])])

\* lines 325-327
RecDiff(s_rec, r_rec) == IF s_rec # None /\ r_rec # None THEN RSub(s_rec, r_rec) ELSE None

\* an exception leaving the function
Raised(what) == [exception |-> what]

ErrorResult(msg) == [error |-> msg]

\* lines 249-357
compare_recordings_dtw(stu, ref) ==
    LET s_loud_curve == stu.loudness_curve
        r_loud_curve == ref.loudness_curve
        s_dur == DurationOrZero(stu.duration_sec_trimmed)
        r_dur == DurationOrZero(ref.duration_sec_trimmed)
        s_times == Arange(s_dur, ds)
        r_times == Arange(r_dur, ds)
        s_l == resample_curve(s_loud_curve, "t", "rms_db", s_times)
        r_l == resample_curve(r_loud_curve, "t", "rms_db", r_times)
        kept == ReducePath(DtwPath(s_l, r_l))
        s_key == pick_tempo_key(stu.tempo_curve)
        r_key == pick_tempo_key(ref.tempo_curve)
        s_t == resample_curve(stu.tempo_curve, "t", s_key, s_times)
        r_t == resample_curve(ref.tempo_curve, "t", r_key, r_times)
        tempo_diff_ds == AlignedDiff(s_t, r_t, kept)
        loud_diff_ds == AlignedDiff(s_l, r_l, kept)
    IN  IF s_loud_curve = <<>> \/ r_loud_curve = <<>>
        THEN ErrorResult("Missing loudness curves for DTW alignment.")
        ELSE IF RLe(s_dur, Q(0)) \/ RLe(r_dur, Q(0))
        THEN ErrorResult("Non-positive trimmed durations.")
        ELSE IF Len(s_l) = 0 \/ Len(r_l) = 0
        THEN ErrorResult("Failed to resample loudness curves.")
        ELSE IF PathTooShort(kept)
        THEN ErrorResult("DTW path too short to compare reliably.")
        ELSE IF TempoMissing(s_t, r_t)
        THEN ErrorResult("Missing tempo curves for DTW comparison.")
        ELSE IF \E k \in 1..Len(kept) : kept[k][1] >= Len(s_t) \/ kept[k][2] >= Len(r_t)
        THEN Raised("IndexError")
        ELSE [ overlap_sec |-> RMin(s_dur, r_dur),
               grid_hz |-> 10,
               tempo |->
                   [ student_key |-> s_key,
                     reference_key |-> r_key,
                     mean_abs_bpm_diff |-> MeanAbs(tempo_diff_ds),
                     recommended_bpm_diff |->
                         RecDiff(stu.tempo_interpretations.recommended_bpm,
                                 ref.tempo_interpretations.recommended_bpm) ],
               loudness |->
                   [ mean_abs_db_diff |-> MeanAbs(loud_diff_ds),
                     student_mean_db |-> stu.loudness_summary.mean_db,
                     reference_mean_db |-> ref.loudness_summary.mean_db ],
               curves |->
                   [ t |-> [k \in 1..Len(kept) |-> s_times[kept[k][1] + 1]],
                     student_t |-> [k \in 1..Len(kept) |-> s_times[kept[k][1] + 1]],
                     ref_t |-> [k \in 1..Len(kept) |-> r_times[kept[k][2] + 1]],
                     tempo_diff |-> tempo_diff_ds,
                     loudness_diff_db |-> loud_diff_ds ],
               notes |->
                   << "DTW alignment uses loudness as a proxy for musical progress (v1).",
                      "Differences may still be skewed by pedaling/room noise and long sustains." >> ]

-----------------------------------------------------------------------------------------------------------------------------------------------------
(* build_insights; the detail and suggestion texts of a card are left out  *)

\* lines 52-59
safe_float(x) == IF x = None \/ x = NaN THEN None ELSE x

\* d.get(k1, {}).get(k2)
Get2(d, k1, k2) ==
    IF k1 \in DOMAIN d /\ k2 \in DOMAIN d[k1] THEN d[k1][k2] ELSE None

Card(title, severity) == [title |-> title, severity |-> severity]

\* lines 390-391
TempoLevelSeverityStrict(s_rec, r_rec) ==
    LET pct == RMul(RDiv(RAbs(RSub(s_rec, r_rec)),
                         IF GtBillionth(r_rec) THEN r_rec ELSE Rat(1, 1000000000)),
                    Q(100))
    IN  IF RLt(pct, Q(5)) THEN "good" ELSE IF RLt(pct, Q(12)) THEN "warn" ELSE "bad"

TempoLevelSeverity(s_rec, r_rec) ==
    LET pct == RMul(RDiv(RAbs(RSub(s_rec, r_rec)),
                         IF GtBillionth(r_rec) THEN r_rec ELSE Rat(1, 1000000000)),
                    Q(100))
    IN  IF RLe(pct, Q(5)) THEN "good" ELSE IF RLe(pct, Q(12)) THEN "warn" ELSE "bad"

\* lines 404-412; the stability is held as its square, so are the thresholds
ConsistencySeverity(s_consistency) ==
    IF RLe(s_consistency, RMul(Rat(6, 100), Rat(6, 100))) THEN "good"
    ELSE IF RLe(s_consistency, RMul(Rat(10, 100), Rat(10, 100))) THEN "warn"
    ELSE "bad"

\* lines 425-430, 443-451, 465-470, 483-488
Graded(x, good, warn) ==
    IF RLe(x, good) THEN "good" ELSE IF RLe(x, warn) THEN "warn" ELSE "bad"

\* lines 363-510
build_insights(stu, ref, cmp) ==
    LET s_rec == safe_float(Get2(stu, "tempo_interpretations", "recommended_bpm"))
        r_rec == safe_float(Get2(ref, "tempo_interpretations", "recommended_bpm"))
        rec_diff == safe_float(Get2(cmp, "tempo", "recommended_bpm_diff"))
        mean_abs_bpm == safe_float(Get2(cmp, "tempo", "mean_abs_bpm_diff"))
        mean_abs_db == safe_float(Get2(cmp, "loudness", "mean_abs_db_diff"))
        s_consistency == safe_float(Get2(stu, "summary", "tempo_stability_cv"))
        s_mean_db == safe_float(Get2(stu, "loudness_summary", "mean_db"))
        r_mean_db == safe_float(Get2(ref, "loudness_summary", "mean_db"))
        s_dr == safe_float(Get2(stu, "loudness_summary", "dynamic_range_db"))
        r_dr == safe_float(Get2(ref, "loudness_summary", "dynamic_range_db"))
        c1 == IF s_rec # None /\ r_rec # None
              THEN <<Card("Overall tempo vs reference", TempoLevelSeverity(s_rec, r_rec))>>
              ELSE <<>>
        c2 == IF s_consistency # None
              THEN <<Card("Tempo consistency", ConsistencySeverity(s_consistency))>>
              ELSE <<>>
        c3 == IF mean_abs_bpm # None
              THEN <<Card("Tempo tracking vs reference (aligned)",
                          Graded(mean_abs_bpm, Q(4), Q(10)))>>
              ELSE <<>>
        c4 == IF s_mean_db # None /\ r_mean_db # None
              THEN <<Card("Overall loudness vs reference",
                          Graded(RAbs(RSub(s_mean_db, r_mean_db)), Q(2), Q(5)))>>
              ELSE <<>>
        c5 == IF s_dr # None /\ r_dr # None
              THEN <<Card("Dynamic range", Graded(RAbs(RSub(s_dr, r_dr)), Q(2), Q(6)))>>
              ELSE <<>>
        c6 == IF mean_abs_db # None
              THEN <<Card("Dynamics tracking vs reference (aligned)",
                          Graded(mean_abs_db, Rat(15, 10), Rat(35, 10)))>>
              ELSE <<>>
        c7 == IF rec_diff # None /\ s_rec # None /\ r_rec # None
                 /\ RLt(Rat(1, 1000), RAbs(RSub(RSub(s_rec, r_rec), rec_diff)))
              THEN <<Card("Sanity check", "warn")>>
              ELSE <<>>
    IN  c1 \o c2 \o c3 \o c4 \o c5 \o c6 \o c7

-----------------------------------------------------------------------------
(* compare, the handler of POST /compare                                   *)

\* The recordings uploaded in the model.  RecA and RecB are long enough to
\* compare (1 s and 7/6 s); RecC is 0.5 s long; RecD is shorter than one
\* analysis frame; RecE has too few beats for a tempo curve.
RecA == Recording(12, <<-32, -32, -32, -22, -12, -12, -12, -17, -27, -27, -27, -37, -42>>,
                  <<0, 2, 6, 12>>, Q(180))
RecB == Recording(14, <<-50, -40, -30, -20, -20, -20, -25, -30, -35, -40, -45, -50, -55,
                        -60, -65>>,
                  <<0, 6, 12>>, Q(120))
RecC == Recording(6, <<-30, -20, -10, -10, -20, -30, -40>>, <<0, 2, 4, 6>>, Q(240))
RecD == Recording(3, <<-30, -20, -30, -40>>, <<>>, Q(0))
RecE == Recording(12, <<-20, -20, -20, -20, -20, -20, -20, -20, -20, -20, -20, -20, -20>>,
                  <<0, 6>>, Q(150))

Recordings == {RecA, RecB, RecC, RecD, RecE}

\* lines 120-136: {**tempo, loudness_curve, loudness_summary, audio_filename}
Analysis(rec, filename) ==
    LET tempo == AnalyzeTempo(rec.beat_frames, rec.tempo_est)
        loud == AnalyzeLoudness(rec)
    IN  [ duration_sec_raw |-> DurationRaw(rec),
          duration_sec_trimmed |-> DurationTrimmed(rec),
          trim |-> Trim(rec),
          tempo_curve |-> tempo.tempo_curve,
          summary |-> tempo.summary,
          tempo_interpretations |-> tempo.tempo_interpretations,
          events |-> tempo.events,
          loudness_curve |-> loud.loudness_curve,
          loudness_summary |-> loud.loudness_summary,
          audio_filename |-> filename ]

NoAnalysis == [audio_filename |-> ""]
NoComp == [pending |-> TRUE]
NoResponse == [status_code |-> 0]
NoRequest == [full |-> FALSE]

TempoIdle ==
    /\ beat_frames = <<>>
    /\ tempo_est = Q(0)
    /\ tpc = "idle"
    /\ tempo_locals = NoLocals
    /\ tempo_out = NoResult

FlowIdle ==
    /\ path = <<>>
    /\ pairs = <<>>
    /\ request = NoRequest
    /\ student = NoAnalysis
    /\ reference = NoAnalysis
    /\ comp = NoComp
    /\ insights = <<>>
    /\ insights_calls = 0
    /\ response = NoResponse
    /\ pc = "idle"

NoRecording == [n_trim |-> 0, levels |-> <<>>]
NoLoudness == [loudness_curve |-> <<>>]

LoudIdle ==
    /\ recording = NoRecording
    /\ loud_out = NoLoudness
    /\ lpc = "idle"

CurveIdle ==
    /\ rc_points = <<>>
    /\ rc_grid = <<>>
    /\ resampled = <<>>
    /\ rpc = "idle"

\* the requests GET /jobs/{job_id} served while the upload is handled
MaxGetters == 2
Getters == 1..MaxGetters

\* A file of the job directory: missing, created or truncated by the open
\* of write_text, or holding the JSON text of its payload.  A JSON null is
\* the string "null"; a payload that is null as a whole has null = TRUE.
NoPayload == [null |-> TRUE, job_id |-> "null", status |-> "null", error |-> "null"]
Missing == [file |-> "missing", payload |-> NoPayload]
Truncated == [file |-> "empty", payload |-> NoPayload]
Written(payload) == [file |-> "written", payload |-> payload]

NoUpload == [filename |-> "", raises |-> "never"]
NoJobResult == [status_code |-> 0, status |-> "null", result |-> NoPayload, error |-> "null"]

JobsIdle ==
    /\ upload = NoUpload
    /\ upc = "idle"
    /\ status_json = Missing
    /\ result_json = Missing
    /\ gpc = [g \in Getters |-> "idle"]
    /\ gstatus = [g \in Getters |-> NoPayload]
    /\ gresp = [g \in Getters |-> NoJobResult]

CompareInit ==
    /\ TempoIdle
    /\ LoudIdle
    /\ CurveIdle
    /\ JobsIdle
    /\ request \in [ student_rec : Recordings, reference_rec : Recordings,
                     student_ext_ok : BOOLEAN, reference_ext_ok : BOOLEAN,
                     full : BOOLEAN ]
    /\ path = <<>>
    /\ pairs = <<>>
    /\ student = NoAnalysis
    /\ reference = NoAnalysis
    /\ comp = NoComp
    /\ insights = <<>>
    /\ insights_calls = 0
    /\ response = NoResponse
    /\ pc = "request"

\* lines 106-109
CompareReject ==
    /\ pc = "request"
    /\ ~request.student_ext_ok \/ ~request.reference_ext_ok
    /\ response' = [status_code |-> 400]
    /\ pc' = "responded"
    /\ UNCHANGED <<path, pairs, request, student, reference, comp, insights, insights_calls>>
    /\ UNCHANGED <<tempo_vars, loud_vars, curve_vars, job_vars>>

\* lines 111-136
CompareAnalyze ==
    /\ pc = "request"
    /\ request.student_ext_ok /\ request.reference_ext_ok
    /\ student' = Analysis(request.student_rec, "student")
    /\ reference' = Analysis(request.reference_rec, "reference")
    /\ pc' = "analyzed"
    /\ UNCHANGED <<path, pairs, request, comp, insights, insights_calls, response>>
    /\ UNCHANGED <<tempo_vars, loud_vars, curve_vars, job_vars>>

\* line 138; an exception leaves the handler as a server error
CompareAlign ==
    /\ pc = "analyzed"
    /\ comp' = compare_recordings_dtw(student, reference)
    /\ IF "exception" \in DOMAIN comp'
       THEN response' = [status_code |-> 500] /\ pc' = "responded"
       ELSE response' = response /\ pc' = "aligned"
    /\ UNCHANGED <<path, pairs, request, student, reference, insights, insights_calls>>
    /\ UNCHANGED <<tempo_vars, loud_vars, curve_vars, job_vars>>

\* line 141
ComparisonSucceededAlways(cmp) == TRUE

ComparisonSucceeded(cmp) == "error" \notin DOMAIN cmp

\* lines 141-142
CompareInsights ==
    /\ pc = "aligned"
    /\ ComparisonSucceeded(comp)
    /\ insights' = build_insights(student, reference, comp)
    /\ insights_calls' = insights_calls + 1
    /\ comp' = [insights |-> insights'] @@ comp
    /\ pc' = "insights"
    /\ UNCHANGED <<path, pairs, request, student, reference, response>>
    /\ UNCHANGED <<tempo_vars, loud_vars, curve_vars, job_vars>>

\* lines 143-146: comp.setdefault("insights", [])
CompareNoInsights ==
    /\ pc = "aligned"
    /\ ~ComparisonSucceeded(comp)
    /\ comp' = comp @@ [insights |-> <<>>]
    /\ pc' = "insights"
    /\ UNCHANGED <<path, pairs, request, student, reference, insights, insights_calls,
                   response>>
    /\ UNCHANGED <<tempo_vars, loud_vars, curve_vars, job_vars>>

\* lines 151-168
Summarised(analysis) ==
    [ audio_filename |-> analysis.audio_filename,
      duration_sec_raw |-> analysis.duration_sec_raw,
      duration_sec_trimmed |-> analysis.duration_sec_trimmed,
      trim |-> analysis.trim,
      summary |-> analysis.summary,
      tempo_interpretations |-> analysis.tempo_interpretations,
      loudness_summary |-> analysis.loudness_summary ]

\* lines 178-182
WithCurves(part, analysis, full) ==
    IF full
    THEN part @@ [tempo_curve |-> analysis.tempo_curve,
                  loudness_curve |-> analysis.loudness_curve]
    ELSE part

\* lines 172-176
TopLevelKeys == {"overlap_sec", "grid_hz", "tempo", "loudness", "curves", "notes", "insights"}

Exposed(cmp) == [k \in TopLevelKeys \cap DOMAIN cmp |-> cmp[k]]

\* lines 148-184
CompareRespond ==
    /\ pc = "insights"
    /\ response' =
           [ status_code |-> 200,
             status |-> "done",
             student |-> WithCurves(Summarised(student), student, request.full),
             reference |-> WithCurves(Summarised(reference), reference, request.full),
             comparison |-> comp ] @@ Exposed(comp)
    /\ pc' = "responded"
    /\ UNCHANGED <<path, pairs, request, student, reference, comp, insights, insights_calls>>
    /\ UNCHANGED <<tempo_vars, loud_vars, curve_vars, job_vars>>

CompareNext ==
    \/ CompareReject
    \/ CompareAnalyze
    \/ CompareAlign
    \/ CompareInsights
    \/ CompareNoInsights
    \/ CompareRespond

-----------------------------------------------------------------------------
(* compare_recordings_dtw and build_insights called on their own           *)

\* The longest warping path and the largest index on it.
MaxPathLen == 5
MaxPathIndex == 3

PathCells == (0..MaxPathIndex) \X (0..MaxPathIndex)

\* the paths of n pairs that never step back in either coordinate
RECURSIVE PathsOfLen(_)
PathsOfLen(n) ==
    IF n = 1 THEN {<<c>> : c \in PathCells}
    ELSE UNION { {Append(w, c) : c \in {d \in PathCells : /\ d[1] >= w[Len(w)][1]
                                                          /\ d[2] >= w[Len(w)][2]}}
                 : w \in PathsOfLen(n - 1) }

MonotonePaths == UNION {PathsOfLen(n) : n \in 1..MaxPathLen}

ReduceInit ==
    /\ TempoIdle
    /\ LoudIdle
    /\ CurveIdle
    /\ JobsIdle
    /\ path \in MonotonePaths
    /\ pairs = <<>>
    /\ request = NoRequest
    /\ student = NoAnalysis
    /\ reference = NoAnalysis
    /\ comp = NoComp
    /\ insights = <<>>
    /\ insights_calls = 0
    /\ response = NoResponse
    /\ pc = "path"

\* lines 280-286
ReduceStep ==
    /\ pc = "path"
    /\ pairs' = ReducePath(path)
    /\ pc' = "reduced"
    /\ UNCHANGED <<path, request, student, reference, comp, insights, insights_calls,
                   response>>
    /\ UNCHANGED <<tempo_vars, loud_vars, curve_vars, job_vars>>

\* The analyses compare_recordings_dtw is called with: those of the
\* recordings, and RecA's with its trimmed duration missing, zero or
\* negative, and with no recommended tempo.
AnalysisInputs ==
    LET a == Analysis(RecA, "a")
    IN  {Analysis(r, "a") : r \in Recordings}
        \cup {[a EXCEPT !.duration_sec_trimmed = d] : d \in {None, Q(0), Q(-1)}}
        \cup {[a EXCEPT !.tempo_interpretations.recommended_bpm = None]}

DtwInit ==
    /\ TempoIdle
    /\ LoudIdle
    /\ CurveIdle
    /\ JobsIdle
    /\ student \in AnalysisInputs
    /\ reference \in AnalysisInputs
    /\ path = <<>>
    /\ pairs = <<>>
    /\ request = NoRequest
    /\ comp = NoComp
    /\ insights = <<>>
    /\ insights_calls = 0
    /\ response = NoResponse
    /\ pc = "call"

\* lines 249-357
DtwCall ==
    /\ pc = "call"
    /\ comp' = compare_recordings_dtw(student, reference)
    /\ pc' = "returned"
    /\ UNCHANGED <<path, pairs, request, student, reference, insights, insights_calls,
                   response>>
    /\ UNCHANGED <<tempo_vars, loud_vars, curve_vars, job_vars>>

\* The values build_insights is called with, rule by rule: the inputs of a
\* rule missing, non-finite, on each threshold and beyond the last one.
RecommendedInputs ==
    {<<None, Q(100)>>, <<Q(105), None>>, <<Q(105), Q(100)>>, <<Q(88), Q(100)>>,
     <<Q(113), Q(100)>>}
RecDiffInputs == {None, Q(5), Q(-12)}
ConsistencyInputs == {None, NaN, Rat(36, 10000), Rat(100, 10000), Rat(121, 10000)}
BpmDiffInputs == {None, Q(4), Q(10), Q(11)}
MeanDbInputs ==
    {<<None, Q(-10)>>, <<Q(-8), NaN>>, <<Q(-8), Q(-10)>>, <<Q(-15), Q(-10)>>,
     <<Q(-16), Q(-10)>>}
RangeInputs ==
    {<<NaN, Q(20)>>, <<Q(22), None>>, <<Q(22), Q(20)>>, <<Q(14), Q(20)>>,
     <<Q(27), Q(20)>>}
DbDiffInputs == {None, Rat(15, 10), Rat(35, 10), Q(4)}

InsightsInit ==
    /\ TempoIdle
    /\ LoudIdle
    /\ CurveIdle
    /\ JobsIdle
    /\ \E rec \in RecommendedInputs, cv \in ConsistencyInputs, mean \in MeanDbInputs,
          range \in RangeInputs :
          /\ student = [ tempo_interpretations |-> [recommended_bpm |-> rec[1]],
                         summary |-> [tempo_stability_cv |-> cv],
                         loudness_summary |-> [mean_db |-> mean[1],
                                               dynamic_range_db |-> range[1]] ]
          /\ reference = [ tempo_interpretations |-> [recommended_bpm |-> rec[2]],
                           summary |-> [tempo_stability_cv |-> None],
                           loudness_summary |-> [mean_db |-> mean[2],
                                                 dynamic_range_db |-> range[2]] ]
    /\ \E rec_diff \in RecDiffInputs, bpm \in BpmDiffInputs, db \in DbDiffInputs :
          comp = [ tempo |-> [recommended_bpm_diff |-> rec_diff, mean_abs_bpm_diff |-> bpm],
                   loudness |-> [mean_abs_db_diff |-> db] ]
    /\ path = <<>>
    /\ pairs = <<>>
    /\ request = NoRequest
    /\ insights = <<>>
    /\ insights_calls = 0
    /\ response = NoResponse
    /\ pc = "call"

\* lines 363-510
InsightsCall ==
    /\ pc = "call"
    /\ insights' = build_insights(student, reference, comp)
    /\ insights_calls' = insights_calls + 1
    /\ pc' = "returned"
    /\ UNCHANGED <<path, pairs, request, student, reference, comp, response>>
    /\ UNCHANGED <<tempo_vars, loud_vars, curve_vars, job_vars>>

\* The signals analyze_loudness is called with: trimmed lengths on both
\* sides of one analysis window, and frames below the rms floor, below amin,
\* more than top_db under the loudest frame, and near full scale.
MaxHops == 5
LevelValues == {-300, -120, -30, -3}

LoudnessInputs ==
    UNION { { [Recording(h, levels, <<>>, Q(0)) EXCEPT !.n_trim = h * hop_length + d]
              : levels \in [1..(h + 1) -> LevelValues] }
            : h \in 0..MaxHops, d \in {0, hop_length - 1} }

LoudnessInit ==
    /\ TempoIdle
    /\ FlowIdle
    /\ CurveIdle
    /\ JobsIdle
    /\ recording \in LoudnessInputs
    /\ loud_out = NoLoudness
    /\ lpc = "load"

\* lines 202-243
LoudnessCall ==
    /\ lpc = "load"
    /\ loud_out' = AnalyzeLoudness(recording)
    /\ lpc' = "returned"
    /\ UNCHANGED recording
    /\ UNCHANGED <<tempo_vars, flow_vars, curve_vars, job_vars>>

\* The curves resample_curve is called with: up to MaxPoints points in any
\* order, times repeated or not, on the grid of their own times, alone or
\* followed by a time before the first point and one after the last.
MaxPoints == 3
CurveTimes == {Q(0), Q(1), Rat(5, 2), Q(4)}
CurveValues == {Q(60), Q(90), Q(120)}
CurvePoints == {[t |-> t, bpm |-> b] : t \in CurveTimes, b \in CurveValues}
Curves == UNION {[1..n -> CurvePoints] : n \in 1..MaxPoints}
OwnTimes(curve) == [k \in 1..Len(curve) |-> curve[k].t]
OutsideTimes == <<Q(-1), Q(9)>>

ResampleInit ==
    /\ TempoIdle
    /\ FlowIdle
    /\ LoudIdle
    /\ JobsIdle
    /\ rc_points \in Curves
    /\ rc_grid \in {OwnTimes(rc_points), OwnTimes(rc_points) \o OutsideTimes}
    /\ resampled = <<>>
    /\ rpc = "call"

\* lines 34-49
ResampleCall ==
    /\ rpc = "call"
    /\ resampled' = resample_curve(rc_points, "t", "bpm", rc_grid)
    /\ rpc' = "returned"
    /\ UNCHANGED <<rc_points, rc_grid>>
    /\ UNCHANGED <<tempo_vars, flow_vars, loud_vars, job_vars>>

-----------------------------------------------------------------------------
(* POST /upload and GET /jobs/{job_id}, main.py and storage.py             *)

\* uuid.uuid4().hex, one job
job_id == "job"

\* main.py lines 31-32: Path(file.filename).suffix.lower()
Filenames == {"", "notes.txt", "take.wav", "TAKE.FLAC"}
suffix_lower(filename) ==
    CASE filename = "notes.txt" -> ".txt"
      [] filename = "take.wav" -> ".wav"
      [] filename = "TAKE.FLAC" -> ".flac"
      [] OTHER -> ""
allowed_ext == {".wav", ".mp3", ".m4a", ".flac", ".ogg"}

\* where the body of the try raises: nowhere, in the analyses, or in the
\* json.dumps of write_result
RaisePoints == {"never", "analysis", "write_result"}

\* storage.py lines 17 and 28
StatusPayload(status, error) ==
    [null |-> FALSE, job_id |-> job_id, status |-> status, error |-> error]
ResultPayload == [null |-> FALSE, job_id |-> job_id, status |-> "null", error |-> "null"]

JobsInit ==
    /\ TempoIdle
    /\ FlowIdle
    /\ LoudIdle
    /\ CurveIdle
    /\ upload \in [filename : Filenames, raises : RaisePoints]
    /\ upc = "request"
    /\ status_json = Missing
    /\ result_json = Missing
    /\ gpc = [g \in Getters |-> "request"]
    /\ gstatus = [g \in Getters |-> NoPayload]
    /\ gresp = [g \in Getters |-> NoJobResult]

\* main.py lines 28-34
UploadReject ==
    /\ upc = "request"
    /\ upload.filename = "" \/ suffix_lower(upload.filename) \notin allowed_ext
    /\ upc' = "rejected"
    /\ UNCHANGED <<upload, status_json, result_json, gpc, gstatus, gresp>>
    /\ UNCHANGED <<tempo_vars, flow_vars, loud_vars, curve_vars>>

\* main.py lines 36-40: the job directory and the audio file
UploadSave ==
    /\ upc = "request"
    /\ upload.filename # "" /\ suffix_lower(upload.filename) \in allowed_ext
    /\ upc' = "saved"
    /\ UNCHANGED <<upload, status_json, result_json, gpc, gstatus, gresp>>
    /\ UNCHANGED <<tempo_vars, flow_vars, loud_vars, curve_vars>>

\* main.py line 42, storage.py line 18: write_text opens status.json,
\* which creates it empty
StatusProcessingOpen ==
    /\ upc = "saved"
    /\ status_json' = Truncated
    /\ upc' = "processing_open"
    /\ UNCHANGED <<upload, result_json, gpc, gstatus, gresp>>
    /\ UNCHANGED <<tempo_vars, flow_vars, loud_vars, curve_vars>>

\* storage.py line 18: the text is written
StatusProcessingWrite ==
    /\ upc = "processing_open"
    /\ status_json' = Written(StatusPayload("processing", "null"))
    /\ upc' = "processing"
    /\ UNCHANGED <<upload, result_json, gpc, gstatus, gresp>>
    /\ UNCHANGED <<tempo_vars, flow_vars, loud_vars, curve_vars>>

\* main.py lines 45-68: the analyses return and the result dict is built
AnalysisReturns ==
    /\ upc = "processing"
    /\ upload.raises # "analysis"
    /\ upc' = "analysed"
    /\ UNCHANGED <<upload, status_json, result_json, gpc, gstatus, gresp>>
    /\ UNCHANGED <<tempo_vars, flow_vars, loud_vars, curve_vars>>

\* main.py lines 45-46 and 74: an analysis raises
AnalysisRaises ==
    /\ upc = "processing"
    /\ upload.raises = "analysis"
    /\ upc' = "except"
    /\ UNCHANGED <<upload, status_json, result_json, gpc, gstatus, gresp>>
    /\ UNCHANGED <<tempo_vars, flow_vars, loud_vars, curve_vars>>

\* main.py line 70, storage.py line 28: json.dumps raises before the file
\* is opened
ResultRaises ==
    /\ upc = "analysed"
    /\ upload.raises = "write_result"
    /\ upc' = "except"
    /\ UNCHANGED <<upload, status_json, result_json, gpc, gstatus, gresp>>
    /\ UNCHANGED <<tempo_vars, flow_vars, loud_vars, curve_vars>>

\* main.py line 70, storage.py line 28: result.json is opened
ResultOpen ==
    /\ upc = "analysed"
    /\ upload.raises # "write_result"
    /\ result_json' = Truncated
    /\ upc' = "result_open"
    /\ UNCHANGED <<upload, status_json, gpc, gstatus, gresp>>
    /\ UNCHANGED <<tempo_vars, flow_vars, loud_vars, curve_vars>>

\* storage.py line 28: the text is written
ResultWrite ==
    /\ upc = "result_open"
    /\ result_json' = Written(ResultPayload)
    /\ upc' = "result_written"
    /\ UNCHANGED <<upload, status_json, gpc, gstatus, gresp>>
    /\ UNCHANGED <<tempo_vars, flow_vars, loud_vars, curve_vars>>

\* write_status(job_id, "done") reached with the result still to be written
ResultStoredOrPending == upc \in {"analysed", "result_written"}

\* main.py lines 70-71: write_status(job_id, "done") follows write_result
ResultStored == upc = "result_written"

\* main.py line 71, storage.py line 18: status.json is opened again
StatusDoneOpen ==
    /\ ResultStored
    /\ status_json' = Truncated
    /\ upc' = "done_open"
    /\ UNCHANGED <<upload, result_json, gpc, gstatus, gresp>>
    /\ UNCHANGED <<tempo_vars, flow_vars, loud_vars, curve_vars>>

\* storage.py line 18, main.py line 72
StatusDoneWrite ==
    /\ upc = "done_open"
    /\ status_json' = Written(StatusPayload("done", "null"))
    /\ upc' = "returned"
    /\ UNCHANGED <<upload, result_json, gpc, gstatus, gresp>>
    /\ UNCHANGED <<tempo_vars, flow_vars, loud_vars, curve_vars>>

\* main.py lines 74-75, storage.py line 18
StatusErrorOpen ==
    /\ upc = "except"
    /\ status_json' = Truncated
    /\ upc' = "error_open"
    /\ UNCHANGED <<upload, result_json, gpc, gstatus, gresp>>
    /\ UNCHANGED <<tempo_vars, flow_vars, loud_vars, curve_vars>>

\* storage.py line 18, main.py line 76
StatusErrorWrite ==
    /\ upc = "error_open"
    /\ status_json' = Written(StatusPayload("error", upload.raises))
    /\ upc' = "raised"
    /\ UNCHANGED <<upload, result_json, gpc, gstatus, gresp>>
    /\ UNCHANGED <<tempo_vars, flow_vars, loud_vars, curve_vars>>

UploadNext ==
    \/ UploadReject
    \/ UploadSave
    \/ StatusProcessingOpen
    \/ StatusProcessingWrite
    \/ AnalysisReturns
    \/ AnalysisRaises
    \/ ResultRaises
    \/ ResultOpen
    \/ ResultWrite
    \/ StatusDoneOpen
    \/ StatusDoneWrite
    \/ StatusErrorOpen
    \/ StatusErrorWrite

\* models.py lines 14-18
JobResult(status, result, error) ==
    [status_code |-> 200, status |-> status, result |-> result, error |-> error]
HTTPError(status_code) ==
    [status_code |-> status_code, status |-> "null", result |-> NoPayload, error |-> "null"]

\* main.py lines 81-83, storage.py lines 20-24: no file is 404, a file
\* opened for writing and still empty makes json.loads raise
GetJobReadStatus(g) ==
    /\ gpc[g] = "request"
    /\ IF status_json.file = "missing"
       THEN /\ gresp' = [gresp EXCEPT ![g] = HTTPError(404)]
            /\ gpc' = [gpc EXCEPT ![g] = "responded"]
            /\ UNCHANGED gstatus
       ELSE IF status_json.file = "empty"
       THEN /\ gresp' = [gresp EXCEPT ![g] = HTTPError(500)]
            /\ gpc' = [gpc EXCEPT ![g] = "responded"]
            /\ UNCHANGED gstatus
       ELSE /\ gstatus' = [gstatus EXCEPT ![g] = status_json.payload]
            /\ gpc' = [gpc EXCEPT ![g] = "status_read"]
            /\ UNCHANGED gresp
    /\ UNCHANGED <<upload, upc, status_json, result_json>>
    /\ UNCHANGED <<tempo_vars, flow_vars, loud_vars, curve_vars>>

\* main.py lines 85-87, storage.py lines 30-34
GetJobDone(g) ==
    /\ gpc[g] = "status_read"
    /\ gstatus[g].status = "done"
    /\ gresp' = [gresp EXCEPT ![g] =
                    IF result_json.file = "missing" THEN JobResult("done", NoPayload, "null")
                    ELSE IF result_json.file = "empty" THEN HTTPError(500)
                    ELSE JobResult("done", result_json.payload, "null")]
    /\ gpc' = [gpc EXCEPT ![g] = "responded"]
    /\ UNCHANGED <<upload, upc, status_json, result_json, gstatus>>
    /\ UNCHANGED <<tempo_vars, flow_vars, loud_vars, curve_vars>>

\* main.py lines 89-92
GetJobNotDone(g) ==
    /\ gpc[g] = "status_read"
    /\ gstatus[g].status # "done"
    /\ gresp' = [gresp EXCEPT ![g] =
                    IF gstatus[g].status = "error"
                    THEN JobResult("error", NoPayload, gstatus[g].error)
                    ELSE JobResult(gstatus[g].status, NoPayload, "null")]
    /\ gpc' = [gpc EXCEPT ![g] = "responded"]
    /\ UNCHANGED <<upload, upc, status_json, result_json, gstatus>>
    /\ UNCHANGED <<tempo_vars, flow_vars, loud_vars, curve_vars>>

GetJobNext == \E g \in Getters : GetJobReadStatus(g) \/ GetJobDone(g) \/ GetJobNotDone(g)

JobsNext == UploadNext \/ GetJobNext

-----------------------------------------------------------------------------
(* Specifications                                                          *)

AnalyzeTempoInit ==
    /\ TempoInit
    /\ FlowIdle
    /\ LoudIdle
    /\ CurveIdle
    /\ JobsIdle

SpecTempo == AnalyzeTempoInit /\ [][TempoNext]_vars

SpecReduce == ReduceInit /\ [][ReduceStep]_vars

SpecDtw == DtwInit /\ [][DtwCall]_vars

SpecInsights == InsightsInit /\ [][InsightsCall]_vars

SpecCompare == CompareInit /\ [][CompareNext]_vars

SpecLoudness == LoudnessInit /\ [][LoudnessCall]_vars

SpecResample == ResampleInit /\ [][ResampleCall]_vars

\* upload_audio runs to its end once started; the requests for the job come
\* when they come
SpecJobs == JobsInit /\ [][JobsNext]_vars /\ WF_vars(UploadNext)

-----
(* Properties of analyze_tempo, checked under SpecTempo                    *)

TempoReturned == tpc = "done"
CurveReturned == tpc = "done" /\ Len(beat_frames) >= 3
OutInterp == tempo_out.tempo_interpretations
OutCurve == tempo_out.tempo_curve

\* lo <= x <= hi for a rational x and integers lo, hi
Within(x, lo, hi) == lo * Den(x) <= Num(x) /\ Num(x) <= hi * Den(x)

\* y is x/2, and z is 2x
IsHalfOf(y, x) == 2 * Num(y) * Den(x) = Num(x) * Den(y)
IsDoubleOf(z, x) == Num(z) * Den(x) = 2 * Num(x) * Den(z)

AvgOfCurve == RMean([k \in 1..Len(OutCurve) |-> OutCurve[k].bpm])

\* C1: with as_detected = avg_bpm, the label is half_time_bpm if
\* 90 <= as_detected <= 180 and 40 <= as_detected/2 <= 110, otherwise
\* as_detected_bpm if 40 <= as_detected <= 120, otherwise double_time_bpm if
\* 40 <= 2*as_detected <= 120, otherwise as_detected_bpm: the first rule that
\* matches decides, whatever the later rules say.
C1_OctavePriorityChain ==
    CurveReturned =>
        LET a == OutInterp.as_detected_bpm
            rule1 == Within(a, 90, 180) /\ 2 * 40 * Den(a) <= Num(a) /\ Num(a) <= 2 * 110 * Den(a)
            rule2 == Within(a, 40, 120)
            rule3 == 40 * Den(a) <= 2 * Num(a) /\ 2 * Num(a) <= 120 * Den(a)
        IN  /\ a = AvgOfCurve
            /\ a = tempo_out.summary.avg_bpm
            /\ rule1 => OutInterp.recommended_label = "half_time_bpm"
            /\ ~rule1 /\ rule2 => OutInterp.recommended_label = "as_detected_bpm"
            /\ ~rule1 /\ ~rule2 /\ rule3 => OutInterp.recommended_label = "double_time_bpm"
            /\ ~rule1 /\ ~rule2 /\ ~rule3 => OutInterp.recommended_label = "as_detected_bpm"

\* an average on which the first two rules both match, decided by the first
C1_Witness ==
    /\ CurveReturned
    /\ Within(OutInterp.as_detected_bpm, 90, 120)
    /\ OutInterp.recommended_label = "half_time_bpm"

HalfSecondSpacing ==
    LET beat_times == frames_to_time(beat_frames)
    IN  \A k \in 1..(Len(beat_times) - 1) : RSub(beat_times[k + 1], beat_times[k]) = Rat(1, 2)

ConstantAt120 ==
    /\ \A k \in 1..Len(OutCurve) : OutCurve[k].bpm = Q(120)
    /\ tempo_out.summary.tempo_stability_cv = Q(0)

\* C2 as stated: beats 0.5 s apart give a constant 120 BPM, a stability of 0
\* and the as-detected interpretation, recommended_bpm = 120.
C2_AsStated ==
    CurveReturned /\ HalfSecondSpacing =>
        /\ ConstantAt120
        /\ OutInterp.recommended_label = "as_detected_bpm"
        /\ OutInterp.recommended_bpm = Q(120)

\* C2: beats 0.5 s apart give a constant 120 BPM and a stability of 0; the
\* octave rule then halves it: recommended_label = "half_time_bpm" and
\* recommended_bpm = 60, with as_detected_bpm = 120.
C2_ConstantSpacingHalved ==
    CurveReturned /\ HalfSecondSpacing =>
        /\ ConstantAt120
        /\ OutInterp.as_detected_bpm = Q(120)
        /\ OutInterp.recommended_label = "half_time_bpm"
        /\ OutInterp.recommended_bpm = Q(60)

\* the beat timestamps [0.0, 0.5, 1.0, 1.5, 2.0]
C2_Witness ==
    /\ CurveReturned
    /\ frames_to_time(beat_frames) = <<Q(0), Rat(1, 2), Q(1), Rat(3, 2), Q(2)>>

\* C3: in every returned tempo_interpretations, degenerate or not,
\* half_time_bpm is as_detected_bpm/2, double_time_bpm is as_detected_bpm*2,
\* recommended_label is one of the three candidate names and recommended_bpm
\* is the candidate recommended_label names.
C3_InterpretationsConsistent ==
    TempoReturned =>
        /\ IsHalfOf(OutInterp.half_time_bpm, OutInterp.as_detected_bpm)
        /\ IsDoubleOf(OutInterp.double_time_bpm, OutInterp.as_detected_bpm)
        /\ OutInterp.recommended_label \in {"as_detected_bpm", "half_time_bpm", "double_time_bpm"}
        /\ OutInterp.recommended_bpm = OutInterp[OutInterp.recommended_label]

C3_Witness ==
    /\ CurveReturned
    /\ OutInterp.recommended_label = "as_detected_bpm"
    /\ OutInterp.recommended_bpm = Q(240)

\* position k of the returned curve deviates from avg_bpm by more than 15 %
BadPoint(k) ==
    LET avg == tempo_out.summary.avg_bpm
    IN  RLt(Rat(15, 100), RDiv(RAbs(RSub(OutCurve[k].bpm, avg)), avg))

MaximalBadRuns ==
    LET n == Len(OutCurve)
    IN  { r \in (1..n) \X (1..n) :
            /\ r[1] <= r[2]
            /\ \A k \in r[1]..r[2] : BadPoint(k)
            /\ r[1] = 1 \/ ~BadPoint(r[1] - 1)
            /\ r[2] = n \/ ~BadPoint(r[2] + 1) }

LongBadRuns == { r \in MaximalBadRuns : r[2] - r[1] + 1 >= 2 }

EventsAreLongBadRuns ==
    LET events == tempo_out.events
    IN  /\ Len(events) = Cardinality(LongBadRuns)
        /\ \A r \in LongBadRuns :
              \E k \in 1..Len(events) :
                  /\ events[k].t_start = OutCurve[r[1]].t
                  /\ events[k].t_end = OutCurve[r[2]].t
        /\ \A k \in 1..(Len(events) - 1) : RLt(events[k].t_start, events[k + 1].t_start)

\* C4 as stated: with at least 3 beats the events are, in time order, the
\* maximal runs of bad points of length >= 2, from t_mid[first] to t_mid[last].
C4_AsStated == CurveReturned => EventsAreLongBadRuns

\* C4: with at least 4 beats (3 or more tempo points) the events are, in time
\* order, the maximal runs of bad points of length >= 2, from t_mid[first] to
\* t_mid[last], a run still bad at the final sample included; with exactly 3
\* beats (2 tempo points) no event is reported.
C4_EventsFromThreePoints ==
    /\ TempoReturned /\ Len(beat_frames) >= 4 => EventsAreLongBadRuns
    /\ TempoReturned /\ Len(beat_frames) = 3 => tempo_out.events = <<>>

\* two events, the second closed at the final sample
C4_Witness ==
    /\ CurveReturned
    /\ Len(tempo_out.events) = 2
    /\ tempo_out.events[2].t_end = OutCurve[Len(OutCurve)].t

\* C9: with fewer than 3 beats the result is the degenerate one: empty curve,
\* no events, avg_bpm = the tempo estimate, bpm_variance = 0, no
\* tempo_stability_cv, as-detected recommended at the tempo estimate; with 3
\* or more beats the curve has one point per pair of consecutive beats.
C9_DegenerateBelowThreeBeats ==
    /\ TempoReturned /\ Len(beat_frames) < 3 =>
          /\ tempo_out.tempo_curve = <<>>
          /\ tempo_out.events = <<>>
          /\ tempo_out.summary.avg_bpm = tempo_est
          /\ tempo_out.summary.bpm_variance = Q(0)
          /\ tempo_out.summary.tempo_stability_cv = None
          /\ OutInterp.recommended_label = "as_detected_bpm"
          /\ OutInterp.recommended_bpm = tempo_est
    /\ TempoReturned /\ Len(beat_frames) >= 3 =>
          /\ tempo_out.tempo_curve # <<>>
          /\ Len(tempo_out.tempo_curve) = Len(beat_frames) - 1

C9_Witness ==
    /\ TempoReturned
    /\ Len(beat_frames) = 2
    /\ tempo_est = Q(150)
    /\ OutInterp.recommended_bpm = Q(150)

-----------------------------------------------------------------------------
(* Properties of the path reduction, checked under SpecReduce              *)

Reduced == pc = "reduced"

\* the position of the first pair of the path with student index i
FirstOnPath(i) ==
    CHOOSE n \in 1..Len(path) :
        /\ path[n][1] = i
        /\ \A l \in 1..(n - 1) : path[l][1] # i

\* C5: of a path non-decreasing in both coordinates the reduction keeps, for
\* each student index, the first pair met from the start and nothing else, in
\* path order: student indices strictly increase, reference indices never
\* decrease, and each kept reference index is the smallest one paired with
\* its student index on the path.
C5_FirstSeenWins ==
    Reduced =>
        /\ \A k \in 1..(Len(pairs) - 1) :
              /\ pairs[k][1] < pairs[k + 1][1]
              /\ pairs[k][2] <= pairs[k + 1][2]
        /\ {pairs[k][1] : k \in 1..Len(pairs)} = {path[n][1] : n \in 1..Len(path)}
        /\ \A k \in 1..Len(pairs) :
              /\ pairs[k] = path[FirstOnPath(pairs[k][1])]
              /\ \A n \in 1..Len(path) :
                    path[n][1] = pairs[k][1] => pairs[k][2] <= path[n][2]

\* a path that pairs one student index with several reference indices
C5_Witness ==
    /\ Reduced
    /\ Len(pairs) >= 2
    /\ \E n \in 1..(Len(path) - 1) :
          path[n][1] = path[n + 1][1] /\ path[n][2] < path[n + 1][2]

-----------------------------------------------------------------------------
(* Properties of compare_recordings_dtw, checked under SpecDtw             *)

Returned == pc = "returned"

Failed(cmp) == "error" \in DOMAIN cmp

MissingOrNonPositive(d) == d = None \/ RLe(d, Q(0))

RetainedPairs(stu, ref) ==
    ReducePath(DtwPath(
        resample_curve(stu.loudness_curve, "t", "rms_db", Arange(stu.duration_sec_trimmed, ds)),
        resample_curve(ref.loudness_curve, "t", "rms_db", Arange(ref.duration_sec_trimmed, ds))))

InsufficientData(stu, ref) ==
    \/ stu.loudness_curve = <<>>
    \/ ref.loudness_curve = <<>>
    \/ stu.tempo_curve = <<>>
    \/ ref.tempo_curve = <<>>
    \/ MissingOrNonPositive(stu.duration_sec_trimmed)
    \/ MissingOrNonPositive(ref.duration_sec_trimmed)
    \/ Len(RetainedPairs(stu, ref)) < 10

\* C6: compare_recordings_dtw raises nothing; it returns a dict with an
\* "error" key and no difference series exactly when a loudness or tempo
\* curve of either recording is empty, a trimmed duration is missing or
\* <= 0, or fewer than 10 pairs are retained; otherwise a result with the
\* difference series and no "error" key.
C6_StructuredErrorOrResult ==
    Returned =>
        /\ "exception" \notin DOMAIN comp
        /\ Failed(comp) <=> InsufficientData(student, reference)
        /\ Failed(comp) => DOMAIN comp = {"error"}
        /\ ~Failed(comp) =>
              /\ "curves" \in DOMAIN comp
              /\ Len(comp.curves.tempo_diff) >= 10
              /\ Len(comp.curves.loudness_diff_db) >= 10

\* the student can be compared, the reference has no tempo curve
C6_Witness ==
    /\ Returned
    /\ student.tempo_curve # <<>>
    /\ student.loudness_curve # <<>>
    /\ reference.loudness_curve # <<>>
    /\ reference.tempo_curve = <<>>
    /\ Len(RetainedPairs(student, reference)) >= 10
    /\ Failed(comp)

-----------------------------------------------------------------------------
(* Properties of build_insights, checked under SpecInsights                *)

Present(x) == x # None /\ x # NaN

Grade(x, good, warn) ==
    IF Num(x) * Den(good) <= Num(good) * Den(x) THEN "good"
    ELSE IF Num(x) * Den(warn) <= Num(warn) * Den(x) THEN "warn"
    ELSE "bad"

CardIf(present, title, severity) ==
    IF present THEN <<[title |-> title, severity |-> severity]>> ELSE <<>>

\* the cards of the table of rules, each from the inputs of its own rule
TableCards(stu, ref, cmp) ==
    LET s_rec == stu.tempo_interpretations.recommended_bpm
        r_rec == ref.tempo_interpretations.recommended_bpm
        cv == stu.summary.tempo_stability_cv
        bpm == cmp.tempo.mean_abs_bpm_diff
        s_mean == stu.loudness_summary.mean_db
        r_mean == ref.loudness_summary.mean_db
        s_dr == stu.loudness_summary.dynamic_range_db
        r_dr == ref.loudness_summary.dynamic_range_db
        db == cmp.loudness.mean_abs_db_diff
    IN  CardIf(Present(s_rec) /\ Present(r_rec), "Overall tempo vs reference",
               Grade(RMul(RDiv(RAbs(RSub(s_rec, r_rec)), r_rec), Q(100)), Q(5), Q(12)))
        \o CardIf(Present(cv), "Tempo consistency",
                  Grade(cv, Rat(36, 10000), Rat(100, 10000)))
        \o CardIf(Present(bpm), "Tempo tracking vs reference (aligned)",
                  Grade(bpm, Q(4), Q(10)))
        \o CardIf(Present(s_mean) /\ Present(r_mean), "Overall loudness vs reference",
                  Grade(RAbs(RSub(s_mean, r_mean)), Q(2), Q(5)))
        \o CardIf(Present(s_dr) /\ Present(r_dr), "Dynamic range",
                  Grade(RAbs(RSub(s_dr, r_dr)), Q(2), Q(6)))
        \o CardIf(Present(db), "Dynamics tracking vs reference (aligned)",
                  Grade(db, Rat(3, 2), Rat(7, 2)))

IsRuleCard(card) == card.title # "Sanity check"

\* C7: build_insights returns, in the order of the table, one card per rule
\* whose inputs are all present and finite, and none for a rule with a
\* missing, null or non-finite input; each severity follows the inclusive
\* thresholds of its rule applied to its own inputs only.  (The consistency
\* check after the table may add one last card; it is not a rule of the
\* table.)
C7_OneCardPerRule ==
    Returned =>
        /\ SelectSeq(insights, IsRuleCard) = TableCards(student, reference, comp)
        /\ \A k \in 1..(Len(insights) - 1) : IsRuleCard(insights[k])

\* one rule skipped for a non-finite input, the first rule on its threshold
C7_Witness ==
    /\ Returned
    /\ student.summary.tempo_stability_cv = NaN
    /\ student.tempo_interpretations.recommended_bpm = Q(105)
    /\ reference.tempo_interpretations.recommended_bpm = Q(100)
    /\ Len(insights) = 5
    /\ insights[1] = [title |-> "Overall tempo vs reference", severity |-> "good"]
    /\ insights[2].title = "Tempo tracking vs reference (aligned)"

-----------------------------------------------------------------------------
(* Properties of POST /compare, checked under SpecCompare                  *)

Responded == pc = "responded" /\ response.status_code = 200

DiffCards ==
    { "Overall tempo vs reference", "Tempo tracking vs reference (aligned)",
      "Overall loudness vs reference", "Dynamic range",
      "Dynamics tracking vs reference (aligned)" }

\* C8: two identical recordings that can be compared give
\* mean_abs_bpm_diff = 0, mean_abs_db_diff = 0 and recommended_bpm_diff = 0,
\* every card on a difference metric is there once and "good", and there is
\* no sanity-check card.
C8_IdenticalRecordings ==
    Responded /\ request.student_rec = request.reference_rec /\ ~Failed(response.comparison) =>
        /\ response.tempo.mean_abs_bpm_diff = Q(0)
        /\ response.loudness.mean_abs_db_diff = Q(0)
        /\ response.tempo.recommended_bpm_diff = Q(0)
        /\ \A title \in DiffCards :
              Len(SelectSeq(response.insights,
                            LAMBDA c : c.title = title /\ c.severity = "good")) = 1
        /\ \A k \in 1..Len(response.insights) :
              /\ response.insights[k].title # "Sanity check"
              /\ response.insights[k].title \in DiffCards =>
                    response.insights[k].severity = "good"

\* a recording whose loudness has plateaus and whose tempo varies, against itself
C8_Witness ==
    /\ Responded
    /\ request.student_rec = RecA
    /\ request.reference_rec = RecA
    /\ ~Failed(response.comparison)
    /\ Len(response.insights) = 6

AnalysisKeys ==
    { "duration_sec_raw", "duration_sec_trimmed", "trim", "summary",
      "tempo_interpretations", "loudness_summary" }

CarriesAnalysis(part, rec) ==
    /\ AnalysisKeys \subseteq DOMAIN part
    /\ \A k \in AnalysisKeys : part[k] = Analysis(rec, "")[k]

\* C10: when the alignment fails, the response still carries both
\* recordings' analyses, its comparison is the error with an empty insights
\* list, build_insights was not invoked, and the response has none of the
\* keys overlap_sec, grid_hz, tempo, loudness, curves.
C10_AlignmentFailureResponse ==
    /\ Failed(comp) => insights_calls = 0
    /\ Responded /\ Failed(response.comparison) =>
          /\ CarriesAnalysis(response.student, request.student_rec)
          /\ CarriesAnalysis(response.reference, request.reference_rec)
          /\ DOMAIN response.comparison = {"error", "insights"}
          /\ response.comparison.insights = <<>>
          /\ insights_calls = 0
          /\ DOMAIN response \cap {"overlap_sec", "grid_hz", "tempo", "loudness", "curves"} = {}

\* the student analysed in full, the reference without a tempo curve
C10_Witness ==
    /\ Responded
    /\ request.student_rec = RecA
    /\ request.reference_rec = RecE
    /\ response.comparison.error = "Missing tempo curves for DTW comparison."
    /\ response.student.tempo_interpretations.recommended_label = "half_time_bpm"
    /\ response.reference.summary.tempo_stability_cv = None

-----------------------------------------------------------------------------
(* Properties of analyze_loudness, checked under SpecLoudness              *)

LoudnessReturned == lpc = "returned"

\* the frames of the recording that are as loud as any other
LoudestFrames ==
    {k \in 1..Len(recording.levels) :
        \A l \in 1..Len(recording.levels) : recording.levels[l] <= recording.levels[k]}

-----------------------------------------------------------------------------
(* Properties of resample_curve, checked under SpecResample                *)

Resampled == rpc = "returned"

DistinctTimes ==
    \A i, j \in 1..Len(rc_points) : i # j => rc_points[i].t # rc_points[j].t

\* the points of the curve that are earliest, and latest
FirstPoints == {k \in 1..Len(rc_points) : \A l \in 1..Len(rc_points) :
                   RLe(rc_points[k].t, rc_points[l].t)}
LastPoints == {k \in 1..Len(rc_points) : \A l \in 1..Len(rc_points) :
                  RLe(rc_points[l].t, rc_points[k].t)}

\* one value per grid point; at the time of a point of the curve, the value
\* of that point; before the first point the value of a first point, after
\* the last point the value of a last point
ReproducesCurve ==
    /\ Len(resampled) = Len(rc_grid)
    /\ \A g \in 1..Len(rc_grid) :
          /\ \A k \in 1..Len(rc_points) :
                rc_grid[g] = rc_points[k].t => resampled[g] = rc_points[k].bpm
          /\ (\A k \in 1..Len(rc_points) : RLt(rc_grid[g], rc_points[k].t)) =>
                \E k \in FirstPoints : resampled[g] = rc_points[k].bpm
          /\ (\A k \in 1..Len(rc_points) : RLt(rc_points[k].t, rc_grid[g])) =>
                \E k \in LastPoints : resampled[g] = rc_points[k].bpm

-----------------------------------------------------------------------------
(* Properties of an upload job, checked under SpecJobs                     *)

\* status.json holds the given status
Stored(status) == status_json.file = "written" /\ status_json.payload.status = status

\* C13: whatever the interleaving of upload_audio with the requests for
\* the job, the stored status is processing before it is anything else,
\* from processing it becomes done or error and then changes no more; the
\* result is stored before the status is done, so a get_job that read done
\* answers with a result that is not null; when the analysis or the storing
\* of the result raises, the status is never done and ends as error.
C13_JobStatusLifecycle ==
    /\ [](status_json.file = "written" =>
             Stored("processing") \/ Stored("done") \/ Stored("error"))
    /\ [](upc \in {"request", "rejected", "saved", "processing_open"} =>
             status_json.file # "written")
    /\ [](Stored("done") => [](~Stored("processing") /\ ~Stored("error")))
    /\ [](Stored("error") => [](~Stored("processing") /\ ~Stored("done")))
    /\ [](Stored("done") => result_json = Written(ResultPayload))
    /\ [](\A g \in Getters :
             /\ gstatus[g].status = "done" => result_json = Written(ResultPayload)
             /\ gresp[g].status = "done" =>
                   gresp[g].status_code = 200 /\ gresp[g].result = ResultPayload)
    /\ [](upload.raises # "never" => ~Stored("done"))
    /\ [](upc = "raised" => Stored("error"))
    /\ (upc = "except" ~> [](Stored("error")))
    /\ (upc = "result_written" ~> [](Stored("done")))

\* one request answered while the analysis ran, the other after it
C13_Witness ==
    /\ upc = "returned"
    /\ gresp[1] = JobResult("processing", NoPayload, "null")
    /\ gresp[2] = JobResult("done", ResultPayload, "null")

-----------------------------------------------------------------------------
(* Properties of the alignment axis, checked under SpecDtw                 *)

\* lines 254-271: the guards before the alignment let the call through
PathComputed(stu, ref) ==
    /\ stu.loudness_curve # <<>>
    /\ ref.loudness_curve # <<>>
    /\ ~MissingOrNonPositive(stu.duration_sec_trimmed)
    /\ ~MissingOrNonPositive(ref.duration_sec_trimmed)

GridOf(a) == Arange(a.duration_sec_trimmed, ds)

WarpingPath(stu, ref) ==
    DtwPath(resample_curve(stu.loudness_curve, "t", "rms_db", GridOf(stu)),
            resample_curve(ref.loudness_curve, "t", "rms_db", GridOf(ref)))

\* from (0,0) to the last indices, each coordinate advancing by 0 or 1
CoversBothSequences(wp, n, m) ==
    /\ wp # <<>>
    /\ wp[1] = <<0, 0>>
    /\ wp[Len(wp)] = <<n - 1, m - 1>>
    /\ \A k \in 1..(Len(wp) - 1) :
          /\ wp[k + 1][1] - wp[k][1] \in {0, 1}
          /\ wp[k + 1][2] - wp[k][2] \in {0, 1}
          /\ wp[k + 1] # wp[k]

PathTooShortError == [error |-> "DTW path too short to compare reliably."]

\* C14: when a warping path is computed, it runs from (0,0) to the last
\* indices in steps of at most 1 per coordinate and the retained pairs hold
\* every student grid index exactly once, in order; the "path too short"
\* error is returned exactly when the student grid has fewer than 10
\* points, whatever the length of the reference; on success "t", "ref_t",
\* "tempo_diff" and "loudness_diff_db" all have as many entries as the
\* student grid has points.
C14_AxisCoversStudentGrid ==
    Returned /\ PathComputed(student, reference) =>
        LET n == Len(GridOf(student))
            m == Len(GridOf(reference))
            kept == RetainedPairs(student, reference)
        IN  /\ CoversBothSequences(WarpingPath(student, reference), n, m)
            /\ Len(kept) = n
            /\ \A k \in 1..n : kept[k][1] = k - 1
            /\ comp = PathTooShortError <=> n < 10
            /\ ~Failed(comp) =>
                  /\ Len(comp.curves.t) = n
                  /\ Len(comp.curves.ref_t) = n
                  /\ Len(comp.curves.tempo_diff) = n
                  /\ Len(comp.curves.loudness_diff_db) = n
                  /\ comp.curves.t = GridOf(student)

\* a student of 10 grid points against a longer reference: the path pairs
\* some student index with several reference indices, and 10 pairs remain
C14_Witness ==
    /\ Returned
    /\ PathComputed(student, reference)
    /\ Len(GridOf(student)) = 10
    /\ Len(GridOf(reference)) > 10
    /\ Len(WarpingPath(student, reference)) > 10
    /\ ~Failed(comp)
    /\ Len(comp.curves.ref_t) = 10

-----------------------------------------------------------------------------
(* The clamp of the instantaneous tempo, checked under SpecTempo           *)

\* C15: the samples being clamped to [40, 240] before they are averaged,
\* the average of a recording with a curve lies in [40, 240]; no result has
\* recommended_label = "double_time_bpm" and the scale is never 2; every
\* curve point has bpm in [40, 240] and bpm_musical = bpm * scale, with one
\* scale in {0.5, 1.0} for the whole recording.
C15_DoubleTimeNeverFires ==
    /\ CurveReturned =>
          /\ Within(tempo_locals.avg_bpm, 40, 240)
          /\ Within(tempo_out.summary.avg_bpm, 40, 240)
          /\ Within(OutInterp.as_detected_bpm, 40, 240)
          /\ tempo_locals.scale # Q(2)
          /\ OutCurve # <<>>
    /\ TempoReturned =>
          /\ OutInterp.recommended_label # "double_time_bpm"
          /\ \E scale \in {Rat(1, 2), Q(1)} :
                /\ scale = Scale(OutInterp.recommended_label)
                /\ \A k \in 1..Len(OutCurve) :
                      /\ Within(OutCurve[k].bpm, 40, 240)
                      /\ OutCurve[k].bpm_musical = RMul(OutCurve[k].bpm, scale)

\* beats 5/3 s apart, 36 BPM before the clamp: the average is 40, where the
\* double of the unclamped average would have been recommended
C15_Witness ==
    /\ CurveReturned
    /\ \A k \in 1..(Len(beat_frames) - 1) : beat_frames[k + 1] - beat_frames[k] = 20
    /\ \A k \in 1..Len(OutCurve) : OutCurve[k].bpm = Q(40) /\ OutCurve[k].bpm_musical = Q(40)
    /\ tempo_out.summary.avg_bpm = Q(40)
    /\ OutInterp.recommended_label = "as_detected_bpm"

=============================================================================
